---- MODULE Spec2Model ----
(***************************************************************************)
(* State-machine model of trainingportal_janitor/main.py: the driver loop  *)
(* of main(), sweep_objects(), handle_trainingportal_expiry(), delete()    *)
(* and parse_expiry(), together with the cluster they act on, the wall     *)
(* clock read by utcnow() and the asynchronous shutdown signal.            *)
(*                                                                         *)
(* Scaling.  Strings are sequences of one-character strings.  Every        *)
(* strptime directive (%Y %m %d %H %M %S) consumes exactly one digit of    *)
(* Digits, so "2022-01-01T13:23:54Z" is scaled to "0-0-0T0:1:1Z"; an       *)
(* instant is the mixed-radix value of its six fields.                     *)
(***************************************************************************)
EXTENDS Integers, Sequences, FiniteSets, TLC

VARIABLES
    pc,            \* position of main(): start, sweep, handle, check, presleep, sleep, stopped
    dry_run,       \* args.dry_run
    once,          \* args.once
    counter,       \* the Counter of the current iteration (main.py:35)
    items,         \* trainingportals.items of the current sweep (main.py:58)
    idx,           \* position of the for loop of sweep_objects in items
    cluster,       \* the TrainingPortal resources in the cluster, in listing order
    clock,         \* the instant datetime.utcnow() returns
    slept,         \* time spent in the current time.sleep(args.interval)
    shutdown_now,  \* GracefulShutdown.shutdown_now
    safe_to_exit,  \* GracefulShutdown.safe_to_exit
    iter,          \* history: iterations of the while loop started so far
    handled,       \* history: one record per resource handled in the current sweep
    runFailed,     \* history: line 46 logged an exception in the current iteration
    failedRuns,    \* history: iterations that ended in the except clause
    stats,         \* history: the counts logged by line 43 in the current iteration
    requests,      \* history: names of the delete requests sent to the API, all sweeps
    cluster0,      \* history: the cluster at process start
    sigPc,         \* history: pc at the latest delivery of the shutdown signal
    sigIter,       \* history: iter at the latest delivery of the shutdown signal
    wokeAfterSignal, \* history: a sleep ran its whole interval with shutdown_now set
    client,        \* the DynamicClient main holds (main.py:36), 0 before the first one
    prevStats,     \* history: stats of the iteration before the current one
    prevHandled,   \* history: outcome per resource of the iteration before
    failedOnce,    \* history: names whose delete request failed at least once
    sigHandled     \* history: resources handled when the latest signal arrived

vars == <<pc, dry_run, once, counter, items, idx, cluster, clock, slept,
          shutdown_now, safe_to_exit, iter, handled, runFailed, failedRuns,
          stats, requests, cluster0, sigPc, sigIter, wokeAfterSignal,
          client, prevStats, prevHandled, failedOnce, sigHandled>>

----
(* Bounds *)

\* the clock saturates at MaxClock, an instant later than every sample expiry
MaxClock == 3
\* args.interval, in clock ticks
Interval == 2
\* iterations of the while loop the model follows
MaxIter == 2

----
(* Constants of main.py *)

EXPIRY_ANNOTATION == "janitor/expires"

Digits == {"0", "1"}
Radix == Cardinality(Digits)
DigitValue(c) == IF c = "0" THEN 0 ELSE 1

Directives == {"%Y", "%m", "%d", "%H", "%M", "%S"}

DATETIME_PATTERNS ==
    << <<"%Y", "-", "%m", "-", "%d", "T", "%H", ":", "%M", ":", "%S", "Z">>,
       <<"%Y", "-", "%m", "-", "%d", "T", "%H", ":", "%M">>,
       <<"%Y", "-", "%m", "-", "%d">> >>

----
(* datetime.datetime.strptime and parse_expiry *)

\* strptime(s, pattern) succeeds iff s matches the whole pattern
Matches(s, pattern) ==
    /\ Len(s) = Len(pattern)
    /\ \A i \in 1..Len(pattern) :
          IF pattern[i] \in Directives THEN s[i] \in Digits
                                        ELSE s[i] = pattern[i]

\* the value of directive d in s, 0 when the pattern has no such directive
Field(s, pattern, d) ==
    IF \E i \in 1..Len(pattern) : pattern[i] = d
    THEN DigitValue(s[CHOOSE i \in 1..Len(pattern) : pattern[i] = d])
    ELSE 0

\* the naive datetime strptime builds, as an instant
strptime(s, pattern) ==
    ((((Field(s, pattern, "%Y") * Radix + Field(s, pattern, "%m")) * Radix
        + Field(s, pattern, "%d")) * Radix + Field(s, pattern, "%H")) * Radix
        + Field(s, pattern, "%M")) * Radix + Field(s, pattern, "%S")

\* parse_expiry: the first pattern that parses wins, none raises ValueError
parse_expiry(expiry) ==
    IF \E k \in 1..Len(DATETIME_PATTERNS) : Matches(expiry, DATETIME_PATTERNS[k])
    THEN LET k == CHOOSE j \in 1..Len(DATETIME_PATTERNS) :
                     /\ Matches(expiry, DATETIME_PATTERNS[j])
                     /\ \A h \in 1..(j - 1) : ~Matches(expiry, DATETIME_PATTERNS[h])
         IN [ok |-> TRUE, value |-> strptime(expiry, DATETIME_PATTERNS[k])]
    ELSE [ok |-> FALSE, value |-> 0]

----
(* Python values *)

None == [some |-> FALSE]
Some(v) == [some |-> TRUE, value |-> v]

\* dict.get(key) on a dict held as a set of <<key, value>> pairs
Get(map, key) ==
    IF \E p \in map : p[1] = key
    THEN Some((CHOOSE p \in map : p[1] = key)[2])
    ELSE None

\* truth value of an optional dict / of an optional str
Truthy(opt, empty) == opt.some /\ opt.value # empty

Labels == {"trainingportal-with-expiry", "trainingportal-deleted"}
EmptyCounter == [l \in Labels |-> 0]

\* Counter.update(d): counts of d are added
CounterUpdate(c, d) == [l \in Labels |-> c[l] + d[l]]

----
(* The resources of the cluster *)

Names == <<"A", "B">>

\* metadata.annotations of the sample resources
AnnotationSamples ==
    { None,
      Some({<<"owner", <<"x">>>>}),
      Some({<<EXPIRY_ANNOTATION, <<>>>>}),
      Some({<<EXPIRY_ANNOTATION, <<"0", "-", "0", "-", "0">>>>}),
      Some({<<EXPIRY_ANNOTATION, <<"0", "-", "0", "-", "0", "T", "0", ":", "1">>>>,
            <<"owner", <<"x">>>>}),
      Some({<<EXPIRY_ANNOTATION,
              <<"0", "-", "0", "-", "0", "T", "0", ":", "0", ":", "1", "Z">>>>}),
      Some({<<EXPIRY_ANNOTATION,
              <<"0", "-", "0", "-", "0", "T", "0", ":", "0", ":", "1">>>>}),
      Some({<<EXPIRY_ANNOTATION, <<"x">>>>}) }

Resource(n, a) == [name |-> n, annotations |-> a]

Remove(seq, n) == SelectSeq(seq, LAMBDA r : r.name # n)

\* the outcome when delete is not called
NotCalled(cl) == [cluster |-> cl, issued |-> FALSE, failed |-> FALSE, raised |-> FALSE]

----
(* delete, main.py:85-99 *)

\* delete without the dry_run test of main.py:86
delete_IgnoresDryRun(cl, resource, dry, apiOk) ==
    IF apiOk
    THEN [cluster |-> Remove(cl, resource.name), issued |-> TRUE,
          failed |-> FALSE, raised |-> FALSE]
    ELSE [cluster |-> cl, issued |-> TRUE, failed |-> TRUE, raised |-> FALSE]

\* delete without the try/except of main.py:94-99: the failure propagates
delete_Raises(cl, resource, dry, apiOk) ==
    IF dry
    THEN [cluster |-> cl, issued |-> FALSE, failed |-> FALSE, raised |-> FALSE]
    ELSE IF apiOk
         THEN [cluster |-> Remove(cl, resource.name), issued |-> TRUE,
               failed |-> FALSE, raised |-> FALSE]
         ELSE [cluster |-> cl, issued |-> TRUE, failed |-> TRUE, raised |-> TRUE]

\* apiOk: whether trainingportal_api.delete succeeds; its exception is
\* caught and logged inside delete, which always returns normally
delete(cl, resource, dry, apiOk) ==
    IF dry
    THEN [cluster |-> cl, issued |-> FALSE, failed |-> FALSE, raised |-> FALSE]
    ELSE IF apiOk
         THEN [cluster |-> Remove(cl, resource.name), issued |-> TRUE,
               failed |-> FALSE, raised |-> FALSE]
         ELSE [cluster |-> cl, issued |-> TRUE, failed |-> TRUE, raised |-> FALSE]

----
(* handle_trainingportal_expiry, main.py:102-125 *)

\* main.py:104: the value of the expiry annotation, None without annotations
ExpiryValue(trainingportal) ==
    IF Truthy(trainingportal.annotations, {})
    THEN Get(trainingportal.annotations.value, EXPIRY_ANNOTATION)
    ELSE None

\* main.py:105 is false: the empty dict is returned
OnNoExpiry(cl, now) ==
    [counter |-> EmptyCounter, decision |-> "NoExpiry", called |-> FALSE,
     now |-> now, del |-> NotCalled(cl)]

\* the except clause of main.py:109 falling through to the deletion
OnValueError_Deletes(cl, trainingportal, dry, now, apiOk) ==
    [counter |-> EmptyCounter, decision |-> "Invalid", called |-> TRUE,
     now |-> now, del |-> delete(cl, trainingportal, dry, apiOk)]

\* main.py:109-112: parse_expiry raised ValueError, which is logged
OnValueError(cl, trainingportal, dry, now, apiOk) ==
    [counter |-> EmptyCounter, decision |-> "Invalid", called |-> FALSE,
     now |-> now, del |-> NotCalled(cl)]

\* the comparison of main.py:116 with its operands swapped
IsExpired_Reversed(now, expiry_timestamp) == now < expiry_timestamp

\* the comparison of main.py:116 written as now >= expiry_timestamp
IsExpired_Inclusive(now, expiry_timestamp) == now >= expiry_timestamp

\* now > expiry_timestamp, main.py:116
IsExpired(now, expiry_timestamp) == now > expiry_timestamp

\* main.py:114 and 117-120: the resource expired, delete is called
OnExpired(cl, trainingportal, dry, now, apiOk) ==
    [counter |-> [EmptyCounter EXCEPT !["trainingportal-with-expiry"] = 1,
                                      !["trainingportal-deleted"] = 1],
     decision |-> "Expired", called |-> TRUE, now |-> now,
     del |-> delete(cl, trainingportal, dry, apiOk)]

\* the pending branch with main.py:114 moved under the test of line 116
OnPending_NoCount(cl, now) ==
    [counter |-> EmptyCounter, decision |-> "Pending", called |-> FALSE,
     now |-> now, del |-> NotCalled(cl)]

\* main.py:114 and 121-124: the resource will expire later
OnPending(cl, now) ==
    [counter |-> [EmptyCounter EXCEPT !["trainingportal-with-expiry"] = 1],
     decision |-> "Pending", called |-> FALSE, now |-> now,
     del |-> NotCalled(cl)]

\* now is the value datetime.utcnow() returns at main.py:115
handle_trainingportal_expiry(cl, trainingportal, dry, now, apiOk) ==
    LET expiry == ExpiryValue(trainingportal)
    IN  IF ~Truthy(expiry, <<>>)
        THEN OnNoExpiry(cl, now)
        ELSE LET parsed == parse_expiry(expiry.value)
             IN IF ~parsed.ok
                THEN OnValueError(cl, trainingportal, dry, now, apiOk)
                ELSE IF IsExpired(now, parsed.value)
                     THEN OnExpired(cl, trainingportal, dry, now, apiOk)
                     ELSE OnPending(cl, now)

----
(* Initial state: main.py:18-32 *)

Init ==
    /\ pc = "start"
    /\ dry_run \in BOOLEAN
    /\ once \in BOOLEAN
    /\ counter = EmptyCounter
    /\ items = <<>>
    /\ idx = 1
    /\ \E a \in AnnotationSamples, b \in AnnotationSamples :
          cluster = <<Resource(Names[1], a), Resource(Names[2], b)>>
    /\ clock = 0
    /\ slept = 0
    /\ shutdown_now = FALSE
    /\ safe_to_exit = FALSE
    /\ iter = 0
    /\ handled = <<>>
    /\ runFailed = FALSE
    /\ failedRuns = 0
    /\ stats = None
    /\ requests = {}
    /\ cluster0 = cluster
    /\ sigPc = "none"
    /\ sigIter = 0
    /\ wokeAfterSignal = FALSE
    /\ client = 0
    /\ prevStats = None
    /\ prevHandled = <<>>
    /\ failedOnce = {}
    /\ sigHandled = 0

----
(* main, main.py:33-50 *)

\* main without the try/except of main.py:34-46: the exception ends the process
ExceptionCaught_Exits ==
    /\ pc' = "stopped"
    /\ runFailed' = TRUE
    /\ failedRuns' = IF failedRuns < MaxIter THEN failedRuns + 1 ELSE failedRuns

\* where an exception raised inside the try block of main.py:34-44 lands:
\* the except clause of line 45 logs it and control reaches line 47; the
\* history counter failedRuns stops counting at MaxIter
ExceptionCaught ==
    /\ pc' = "check"
    /\ runFailed' = TRUE
    /\ failedRuns' = IF failedRuns < MaxIter THEN failedRuns + 1 ELSE failedRuns

\* a Counter created once, before the while loop
FreshCounter_Keeps(c) == c

\* main.py:35: counter = Counter()
FreshCounter(c) == EmptyCounter

\* a client built once and reused by the later iterations
BuiltClient_Cached(old, n) == IF old = 0 THEN n ELSE old

\* main.py:36-38: the client built in iteration n
BuiltClient(old, n) == n

\* what the history keeps of a handled resource for the next iteration
Outcome(h) ==
    [name |-> h.name, decision |-> h.decision,
     deleted |-> (h.issued /\ ~h.failed)]

\* main.py:35-38, the top of an iteration: a new Counter, then a new client;
\* ok is whether the configuration loads and the client is built, and on
\* failure client keeps the value of the iteration before
StartIteration ==
    /\ pc = "start"
    /\ counter' = FreshCounter(counter)
    /\ prevStats' = stats
    /\ prevHandled' = [i \in 1..Len(handled) |-> Outcome(handled[i])]
    /\ handled' = <<>>
    /\ stats' = None
    /\ items' = <<>>
    /\ idx' = 1
    /\ \E ok \in BOOLEAN :
          IF ok
          THEN /\ pc' = "sweep" /\ runFailed' = FALSE /\ failedRuns' = failedRuns
               /\ client' = BuiltClient(client, iter')
          ELSE /\ ExceptionCaught
               /\ client' = client
    /\ UNCHANGED <<dry_run, once, cluster, clock, slept, shutdown_now,
                   safe_to_exit, requests, cluster0, sigPc, sigIter,
                   wokeAfterSignal, failedOnce, sigHandled>>

\* main.py:33-38: the while loop starts its next iteration
BuildClient ==
    /\ iter < MaxIter
    /\ iter' = iter + 1
    /\ StartIteration

\* BuildClient with the history counter iter stopping at MaxIter, for the
\* behaviours in which the loop runs for ever
BuildClientLive ==
    /\ iter' = IF iter < MaxIter THEN iter + 1 ELSE iter
    /\ StartIteration

\* a listing served from what the cluster held at process start
Listing_Stale(cl, cl0) == cl0

\* main.py:58: trainingportal_api.get() returns what the cluster holds now
Listing(cl, cl0) == cl

\* a listing failure caught inside sweep_objects and taken for an empty listing
ListFailed_Swallowed ==
    /\ pc' = "handle"
    /\ items' = <<>>
    /\ idx' = 1
    /\ UNCHANGED <<runFailed, failedRuns>>

\* main.py:53-58 raise: nothing in sweep_objects catches the exception
ListFailed ==
    /\ ExceptionCaught
    /\ UNCHANGED <<items, idx>>

\* main.py:53-58: sweep_objects looks the API up and lists the resources;
\* ok is whether both calls succeed
ListResources ==
    /\ pc = "sweep"
    /\ \E ok \in BOOLEAN :
          IF ok
          THEN /\ pc' = "handle"
               /\ items' = Listing(cluster, cluster0)
               /\ idx' = 1
               /\ UNCHANGED <<runFailed, failedRuns>>
          ELSE ListFailed
    /\ UNCHANGED <<dry_run, once, counter, cluster, clock, slept, shutdown_now,
                   safe_to_exit, iter, handled, stats, requests, cluster0,
                   sigPc, sigIter, wokeAfterSignal,
                   client, prevStats, prevHandled, failedOnce, sigHandled>>

\* main.py:59-61: one turn of the for loop of sweep_objects
HandleResource ==
    /\ pc = "handle"
    /\ idx <= Len(items)
    /\ \E apiOk \in BOOLEAN :
          \E r \in {handle_trainingportal_expiry(cluster, items[idx], dry_run,
                                                 clock, apiOk)} :
             /\ cluster' = r.del.cluster
             /\ requests' = IF r.del.issued THEN requests \cup {items[idx].name}
                                            ELSE requests
             /\ failedOnce' = IF r.del.failed THEN failedOnce \cup {items[idx].name}
                                              ELSE failedOnce
             /\ handled' = Append(handled,
                   [name |-> items[idx].name, decision |-> r.decision,
                    now |-> r.now, called |-> r.called, issued |-> r.del.issued,
                    failed |-> r.del.failed])
             /\ IF r.del.raised
                THEN /\ ExceptionCaught
                     /\ UNCHANGED <<counter, idx>>
                ELSE /\ counter' = CounterUpdate(counter, r.counter)
                     /\ idx' = idx + 1
                     /\ UNCHANGED <<pc, runFailed, failedRuns>>
    /\ UNCHANGED <<dry_run, once, items, clock, slept, shutdown_now,
                   safe_to_exit, iter, stats, cluster0, sigPc, sigIter,
                   wokeAfterSignal,
                   client, prevStats, prevHandled, sigHandled>>

\* main.py:42-43: the for loop is over, the counts are logged
LogStats ==
    /\ pc = "handle"
    /\ idx > Len(items)
    /\ pc' = "check"
    /\ stats' = Some(counter)
    /\ UNCHANGED <<dry_run, once, counter, items, idx, cluster, clock, slept,
                   shutdown_now, safe_to_exit, iter, handled, runFailed,
                   failedRuns, requests, cluster0, sigPc, sigIter,
                   wokeAfterSignal,
                   client, prevStats, prevHandled, failedOnce, sigHandled>>

\* the checkpoint of main.py:47 testing args.once only
CheckExit_IgnoresShutdown ==
    /\ pc = "check"
    /\ pc' = IF once THEN "stopped" ELSE "presleep"
    /\ UNCHANGED <<dry_run, once, counter, items, idx, cluster, clock, slept,
                   shutdown_now, safe_to_exit, iter, handled, runFailed,
                   failedRuns, stats, requests, cluster0, sigPc, sigIter,
                   wokeAfterSignal,
                   client, prevStats, prevHandled, failedOnce, sigHandled>>

\* the checkpoint of main.py:47 testing the shutdown flag only
CheckExit_IgnoresOnce ==
    /\ pc = "check"
    /\ pc' = IF shutdown_now THEN "stopped" ELSE "presleep"
    /\ UNCHANGED <<dry_run, once, counter, items, idx, cluster, clock, slept,
                   shutdown_now, safe_to_exit, iter, handled, runFailed,
                   failedRuns, stats, requests, cluster0, sigPc, sigIter,
                   wokeAfterSignal,
                   client, prevStats, prevHandled, failedOnce, sigHandled>>

\* main.py:47-48: the checkpoint after the run
CheckExit ==
    /\ pc = "check"
    /\ pc' = IF once \/ shutdown_now THEN "stopped" ELSE "presleep"
    /\ UNCHANGED <<dry_run, once, counter, items, idx, cluster, clock, slept,
                   shutdown_now, safe_to_exit, iter, handled, runFailed,
                   failedRuns, stats, requests, cluster0, sigPc, sigIter,
                   wokeAfterSignal,
                   client, prevStats, prevHandled, failedOnce, sigHandled>>

\* time.sleep called outside handler.safe_exit()
EnterSleep_NoSafeExit ==
    /\ pc = "presleep"
    /\ pc' = "sleep"
    /\ slept' = 0
    /\ UNCHANGED <<dry_run, once, counter, items, idx, cluster, clock,
                   shutdown_now, safe_to_exit, iter, handled, runFailed,
                   failedRuns, stats, requests, cluster0, sigPc, sigIter,
                   wokeAfterSignal,
                   client, prevStats, prevHandled, failedOnce, sigHandled>>

\* main.py:49-50: the with block is entered and time.sleep starts
EnterSleep ==
    /\ pc = "presleep"
    /\ pc' = "sleep"
    /\ safe_to_exit' = TRUE
    /\ slept' = 0
    /\ UNCHANGED <<dry_run, once, counter, items, idx, cluster, clock,
                   shutdown_now, iter, handled, runFailed, failedRuns, stats,
                   requests, cluster0, sigPc, sigIter, wokeAfterSignal,
                   client, prevStats, prevHandled, failedOnce, sigHandled>>

\* main.py:50: time passes in time.sleep; when the interval is over the with
\* block is left and the loop starts over
SleepTick ==
    /\ pc = "sleep"
    /\ clock' = IF clock < MaxClock THEN clock + 1 ELSE clock
    /\ IF slept + 1 >= Interval
       THEN /\ pc' = "start"
            /\ slept' = 0
            /\ safe_to_exit' = FALSE
            /\ wokeAfterSignal' = (wokeAfterSignal \/ shutdown_now)
       ELSE /\ slept' = slept + 1
            /\ UNCHANGED <<pc, safe_to_exit, wokeAfterSignal>>
    /\ UNCHANGED <<dry_run, once, counter, items, idx, cluster, shutdown_now,
                   iter, handled, runFailed, failedRuns, stats, requests,
                   cluster0, sigPc, sigIter,
                   client, prevStats, prevHandled, failedOnce, sigHandled>>

----
(* The environment *)

\* time passes while main is not sleeping
Tick ==
    /\ pc \notin {"sleep", "stopped"}
    /\ clock < MaxClock
    /\ clock' = clock + 1
    /\ UNCHANGED <<pc, dry_run, once, counter, items, idx, cluster, slept,
                   shutdown_now, safe_to_exit, iter, handled, runFailed,
                   failedRuns, stats, requests, cluster0, sigPc, sigIter,
                   wokeAfterSignal,
                   client, prevStats, prevHandled, failedOnce, sigHandled>>

\* GracefulShutdown.exit_gracefully: SIGINT or SIGTERM is delivered; the flag
\* is set, and the process exits at once when main is inside safe_exit()
Signal ==
    /\ pc # "stopped"
    /\ shutdown_now' = TRUE
    /\ pc' = IF safe_to_exit THEN "stopped" ELSE pc
    /\ sigPc' = pc
    /\ sigIter' = iter
    /\ sigHandled' = Len(handled)
    /\ UNCHANGED <<dry_run, once, counter, items, idx, cluster, clock, slept,
                   safe_to_exit, iter, handled, runFailed, failedRuns, stats,
                   requests, cluster0, wokeAfterSignal,
                   client, prevStats, prevHandled, failedOnce>>

Next ==
    \/ BuildClient
    \/ ListResources
    \/ HandleResource
    \/ LogStats
    \/ CheckExit
    \/ EnterSleep
    \/ SleepTick
    \/ Tick
    \/ Signal

Spec == Init /\ [][Next]_vars

----
(* Type invariant *)

TypeOK ==
    /\ pc \in {"start", "sweep", "handle", "check", "presleep", "sleep", "stopped"}
    /\ dry_run \in BOOLEAN /\ once \in BOOLEAN
    /\ \A l \in Labels : counter[l] \in 0..Len(Names)
    /\ idx \in 1..(Len(items) + 1)
    /\ clock \in 0..MaxClock
    /\ slept \in 0..Interval
    /\ iter \in 0..MaxIter
    /\ failedRuns \in 0..MaxIter

----
(* What the listed resources carry, read off the cluster at process start  *)
(* (the janitor never changes an annotation)                               *)

Portal(n) == cluster0[CHOOSE i \in 1..Len(cluster0) : cluster0[i].name = n]

Annotated(n) ==
    /\ Portal(n).annotations.some
    /\ \E p \in Portal(n).annotations.value : p[1] = EXPIRY_ANNOTATION

AnnotationText(n) ==
    (CHOOSE p \in Portal(n).annotations.value : p[1] = EXPIRY_ANNOTATION)[2]

Parses(n) == Annotated(n) /\ parse_expiry(AnnotationText(n)).ok

Timestamp(n) == parse_expiry(AnnotationText(n)).value

Handled == {handled[i] : i \in 1..Len(handled)}

----
(* C1 *)

\* C1: in a sweep delete is called (performed, or simulated under dry-run)
\* for a resource if and only if its decision is Expired; a resource without
\* annotations, without the expiry annotation or with a value that does not
\* parse is never passed to delete and no delete request is sent for it.
C1_DeletedIffExpired ==
    /\ \A h \in Handled :
          /\ h.called <=> h.decision = "Expired"
          /\ h.issued => h.called
          /\ h.called => (dry_run \/ h.issued)
          /\ ~Parses(h.name) => ~h.called /\ ~h.issued /\ h.decision # "Expired"
    /\ \A n \in requests : Parses(n)

\* a sweep that deleted an expired resource and passed over one whose expiry
\* is absent or invalid
C1_Witness ==
    \E h \in Handled, g \in Handled :
       /\ h.decision = "Expired" /\ h.called
       /\ ~Parses(g.name) /\ ~g.called

----
(* C2 *)

\* C2 as stated: a value that parses to t is Expired when t <= now and
\* Pending when t > now.
C2_Original ==
    \A h \in Handled :
       Parses(h.name) =>
          /\ Timestamp(h.name) <= h.now => h.decision = "Expired"
          /\ Timestamp(h.name) > h.now => h.decision = "Pending"

\* C2 (amended): a value that parses to t is Expired when t < now and
\* Pending when t >= now, t = now included.
C2_ExpiredIffStrictlyPast ==
    \A h \in Handled :
       Parses(h.name) =>
          /\ Timestamp(h.name) < h.now => h.decision = "Expired"
          /\ Timestamp(h.name) >= h.now => h.decision = "Pending"

\* a resource evaluated at the very instant of its expiry
C2_Witness ==
    \E h \in Handled :
       Parses(h.name) /\ Timestamp(h.name) = h.now /\ h.decision = "Pending"

----
(* C3 *)

\* the resources of the current sweep whose expiry lies before the instant
\* they were evaluated at
ExpiredHandled == {h \in Handled : Parses(h.name) /\ Timestamp(h.name) < h.now}

\* C3: with dry_run set no delete request is ever sent and the cluster stays
\* as it was, yet every expired resource counts in trainingportal-deleted of
\* the sweep's summary.
C3_DryRunIssuesNothing ==
    dry_run =>
       /\ requests = {}
       /\ cluster = cluster0
       /\ \A h \in Handled : ~h.issued
       /\ counter["trainingportal-deleted"] = Cardinality(ExpiredHandled)
       /\ stats.some =>
             stats.value["trainingportal-deleted"] = Cardinality(ExpiredHandled)

\* a second dry-run sweep that logged a deletion it did not perform
C3_Witness ==
    /\ dry_run
    /\ iter = 2
    /\ stats.some
    /\ stats.value["trainingportal-deleted"] >= 1
    /\ requests = {}

----
(* C4 *)

\* C4: when the delete request for an expired resource fails, the sweep goes
\* on: the run does not fail, every later resource of the listing is
\* evaluated, and a delete request is sent for each later expired one.
C4_FailedDeleteIsolated ==
    \A i \in 1..Len(handled) :
       handled[i].failed =>
          /\ ~runFailed
          /\ pc = "handle" \/ stats.some
          /\ pc = "handle" => idx = Len(handled) + 1
          /\ stats.some =>
                /\ Len(handled) = Len(items)
                /\ \A j \in (i + 1)..Len(items) :
                      /\ handled[j].name = items[j].name
                      /\ (Parses(items[j].name)
                            /\ Timestamp(items[j].name) < handled[j].now)
                         => handled[j].called /\ handled[j].issued

\* the delete of the first resource failed and the second one was deleted
C4_Witness ==
    /\ stats.some
    /\ Len(handled) = 2
    /\ handled[1].failed
    /\ handled[2].issued /\ ~handled[2].failed
    /\ \A i \in 1..Len(cluster) : cluster[i].name # handled[2].name

----
(* C5 *)

\* C5: an exception raised in an iteration (client set-up, listing, sweep)
\* is caught: control reaches the checkpoint of line 47, the process stops
\* only under run-once or after a shutdown signal, and otherwise the driver
\* sleeps and then returns to the top of the loop.
C5_ExceptionsContained ==
    [][ /\ failedRuns' # failedRuns => pc' = "check" /\ runFailed'
        /\ (pc = "check" /\ runFailed /\ ~once /\ ~shutdown_now /\ pc' # pc)
              => pc' = "presleep"
        /\ (pc = "presleep" /\ pc' # pc) => pc' = "sleep"
        /\ (pc = "sleep" /\ pc' # pc /\ ~shutdown_now') => pc' = "start"
        /\ pc' = "stopped" => once \/ shutdown_now' ]_vars

\* the iteration after a failed one lists the resources and handles them
C5_Witness ==
    /\ failedRuns >= 1
    /\ iter = 2
    /\ ~runFailed
    /\ pc = "handle"
    /\ ~once /\ ~shutdown_now

----
(* C6 *)

\* C6: a shutdown signal delivered during the sleep stops the driver before
\* the interval is over, and nothing runs after it: no further iteration, no
\* delete request.
C6_SignalInterruptsSleep ==
    /\ [](sigPc = "sleep" =>
             pc = "stopped" /\ slept < Interval /\ iter = sigIter)
    /\ [][sigPc = "sleep" => UNCHANGED <<pc, iter, cluster, requests>>]_vars

\* the signal arrived one tick into the sleep
C6_Witness ==
    /\ sigPc = "sleep"
    /\ slept = Interval - 1
    /\ pc = "stopped"

----
(* C7 *)

\* C7 as stated: wherever the signal is delivered, the driver never sleeps a
\* whole interval and then starts another sweep.
C7_Original ==
    ~(shutdown_now /\ wokeAfterSignal /\ pc \in {"sweep", "handle"})

----
(* C8 *)

\* C8: under run-once the driver runs one iteration and stops without
\* sleeping, whether the sweep succeeded or failed; and when the shutdown
\* flag is set at the checkpoint after the run the driver stops without
\* sleeping.
C8_RunOnceAndStop ==
    /\ [](once => /\ iter <= 1
                  /\ pc \notin {"presleep", "sleep"}
                  /\ slept = 0
                  /\ pc = "stopped" => iter = 1)
    /\ [][(pc = "check" /\ (once \/ shutdown_now) /\ pc' # pc)
             => pc' = "stopped"]_vars

\* a run-once process that stopped after its one, failed iteration
C8_Witness ==
    /\ once
    /\ pc = "stopped"
    /\ iter = 1
    /\ runFailed
    /\ ~shutdown_now

----
(* C9 *)

\* C9 as stated: trainingportal-deleted of the summary equals the number of
\* expired resources whose deletion succeeded or was simulated; a failed
\* delete request does not count.
C9_Original ==
    stats.some =>
       stats.value["trainingportal-deleted"]
          = Cardinality({h \in ExpiredHandled : ~h.failed})

----
(* C10 *)

\* C10 as stated: trainingportal-with-expiry of the summary equals the
\* number of listed resources that are Expired.
C10_Original ==
    stats.some =>
       stats.value["trainingportal-with-expiry"] = Cardinality(ExpiredHandled)

\* C10 (amended): trainingportal-with-expiry counts once every resource whose
\* annotation value parses, Expired or Pending, whether or not the delete
\* succeeded; resources without expiry or with an invalid one do not count.
C10_WithExpiryCountsParsed ==
    /\ counter["trainingportal-with-expiry"]
          = Cardinality({h \in Handled : Parses(h.name)})
    /\ stats.some =>
          stats.value["trainingportal-with-expiry"]
             = Cardinality({h \in Handled : h.decision \in {"Expired", "Pending"}})
    /\ \A h \in Handled :
          Parses(h.name) <=> h.decision \in {"Expired", "Pending"}

\* a summary counting a pending resource and one whose delete failed
C10_Witness ==
    /\ stats.some
    /\ stats.value["trainingportal-with-expiry"] = 2
    /\ \E h \in Handled : h.decision = "Pending"
    /\ \E h \in Handled : h.decision = "Expired" /\ h.failed

----
(* The driver running for ever: no --once, no --dry-run, no shutdown signal *)

NameSet == {Names[i] : i \in 1..Len(Names)}

InCluster(n) == \E i \in 1..Len(cluster) : cluster[i].name = n

\* a step of main (at most one of them is enabled in a state)
DriverStep ==
    \/ BuildClientLive
    \/ ListResources
    \/ HandleResource
    \/ LogStats
    \/ CheckExit
    \/ EnterSleep
    \/ SleepTick

LiveNext ==
    \/ DriverStep
    \/ Tick

\* the process keeps running its own steps; building the client, listing and
\* the delete request of each resource succeed again and again when they are
\* tried again and again
Fairness ==
    /\ WF_vars(DriverStep)
    /\ SF_vars(BuildClientLive /\ pc' = "sweep")
    /\ SF_vars(ListResources /\ pc' = "handle")
    /\ \A n \in NameSet :
          SF_vars(HandleResource /\ items[idx].name = n /\ ~InCluster(n)')

\* the sample annotations of the never-ending runs: none, an expiry at
\* instant 0 and an expiry at instant 1
LiveSamples ==
    { None,
      Some({<<EXPIRY_ANNOTATION, <<"0", "-", "0", "-", "0">>>>}),
      Some({<<EXPIRY_ANNOTATION,
              <<"0", "-", "0", "-", "0", "T", "0", ":", "0", ":", "1", "Z">>>>}) }

\* main started without --once and without --dry-run
LiveInit ==
    /\ Init
    /\ ~once
    /\ ~dry_run
    /\ \A i \in 1..Len(cluster) : cluster[i].annotations \in LiveSamples

LiveSpec == LiveInit /\ [][LiveNext]_vars /\ Fairness

----
(* C11 *)

\* C11: a resource whose delete request failed stays in the cluster and the
\* next sweep lists it and sends the request again; when run-once and
\* dry-run are off and no shutdown signal arrives, every resource in the
\* cluster whose expiry has passed is eventually deleted.
C11_FailedDeleteRetried ==
    /\ [](\A h \in Handled : h.failed => InCluster(h.name))
    /\ [](\A i \in 1..Len(prevHandled) :
             (prevHandled[i].decision = "Expired" /\ ~prevHandled[i].deleted
                 /\ ~dry_run /\ stats.some)
             => \E h \in Handled : h.name = prevHandled[i].name /\ h.issued)
    /\ \A n \in NameSet :
          (InCluster(n) /\ Parses(n) /\ Timestamp(n) < clock
              /\ ~once /\ ~dry_run)
          ~> ~InCluster(n)

\* a resource deleted by a later sweep after its delete request had failed
C11_Witness ==
    \E n \in failedOnce :
       /\ ~InCluster(n)
       /\ \E i \in 1..Len(prevHandled) :
             prevHandled[i].name = n /\ ~prevHandled[i].deleted
       /\ \E h \in Handled : h.name = n /\ h.issued /\ ~h.failed

----
(* Sweeps in which the handling of a resource raises *)

\* main.py:59-61 and 102-125: an exception other than the ValueError of
\* parse_expiry is raised inside handle_trainingportal_expiry, outside the
\* try block of delete (a TypeError at line 104, say); neither the handler nor
\* the for loop of sweep_objects catches it, so it reaches the except clause
\* of main
HandleRaises ==
    /\ pc = "handle"
    /\ idx <= Len(items)
    /\ handled' = Append(handled,
          [name |-> items[idx].name, decision |-> "Raised", now |-> clock,
           called |-> FALSE, issued |-> FALSE, failed |-> FALSE])
    /\ ExceptionCaught
    /\ UNCHANGED <<dry_run, once, counter, items, idx, cluster, clock, slept,
                   shutdown_now, safe_to_exit, iter, stats, requests, cluster0,
                   sigPc, sigIter, wokeAfterSignal, client, prevStats,
                   prevHandled, failedOnce, sigHandled>>

FaultNext ==
    \/ Next
    \/ HandleRaises

FaultSpec == Init /\ [][FaultNext]_vars

----
(* C12 *)

\* C12 as stated: an exception raised while one resource is handled does not
\* keep the other resources of the listing from being handled in the same
\* sweep.
C12_Original ==
    (\E h \in Handled : h.decision = "Raised") =>
       pc = "handle" \/ Len(handled) = Len(items)

----
(* C13 *)

\* the sweep of this iteration and the one of the iteration before both ran
\* to their end over the same listing
SameListing ==
    /\ stats.some
    /\ prevStats.some
    /\ Len(handled) = Len(prevHandled)
    /\ \A i \in 1..Len(handled) : handled[i].name = prevHandled[i].name

\* no resource that was Pending in the sweep before has its expiry behind
\* the instant it is evaluated at in this sweep
NoExpiryPassed ==
    \A i \in 1..Len(prevHandled) :
       prevHandled[i].decision = "Pending" =>
          \A h \in Handled :
             h.name = prevHandled[i].name => Timestamp(h.name) >= h.now

\* C13: two consecutive sweeps over an unchanged cluster, with no pending
\* expiry passed in between, log the same counts; and a resource that a sweep
\* really deleted is not listed by the next sweep, which sends no delete
\* request for it.
C13_Idempotent ==
    /\ (SameListing /\ NoExpiryPassed) => stats.value = prevStats.value
    /\ \A i \in 1..Len(prevHandled) :
          prevHandled[i].deleted =>
             /\ ~InCluster(prevHandled[i].name)
             /\ \A j \in 1..Len(items) : items[j].name # prevHandled[i].name
             /\ \A h \in Handled : h.name # prevHandled[i].name

\* a second sweep over the same two resources, one of them expired and not
\* deleted by the first sweep, that logged the counts of the first
C13_Witness ==
    /\ SameListing
    /\ NoExpiryPassed
    /\ Len(handled) = 2
    /\ stats.value["trainingportal-deleted"] = 1
    /\ stats.value = prevStats.value

----
(* C14 *)

\* C14: a shutdown signal delivered while a sweep is in flight changes
\* nothing of the sweep; the resources not yet handled are handled, the
\* expired ones among them are passed to delete, and the driver stops at the
\* checkpoint after the run, without sleeping and without another iteration.
C14_SweepNotInterrupted ==
    /\ [][(pc \in {"sweep", "handle"} /\ shutdown_now' /\ ~shutdown_now)
             => UNCHANGED <<pc, items, idx, counter, cluster, handled>>]_vars
    /\ [](sigPc \in {"sweep", "handle"} =>
             /\ iter = sigIter
             /\ pc \in {"sweep", "handle", "check", "stopped"}
             /\ pc = "stopped" => stats.some \/ runFailed
             /\ stats.some =>
                   /\ Len(handled) = Len(items)
                   /\ \A j \in (sigHandled + 1)..Len(items) :
                         /\ handled[j].name = items[j].name
                         /\ (Parses(items[j].name)
                               /\ Timestamp(items[j].name) < handled[j].now)
                            => handled[j].called)

\* the signal arrived before the first resource was handled; both were
\* handled, the second one was deleted, and the driver stopped
C14_Witness ==
    /\ sigPc = "handle"
    /\ sigHandled = 0
    /\ ~once
    /\ pc = "stopped"
    /\ Len(handled) = 2
    /\ handled[2].issued /\ ~handled[2].failed

----
(* C15 *)

\* C15: the Counter is empty at the start of every iteration, also after an
\* iteration that failed midway, and holds nothing but the contributions of
\* the resources handled in that iteration; the counts logged are those.
C15_SummaryPerIteration ==
    /\ [](/\ counter["trainingportal-with-expiry"]
               = Cardinality({h \in Handled :
                                 h.decision \in {"Expired", "Pending"}})
          /\ counter["trainingportal-deleted"]
               = Cardinality({h \in Handled : h.called})
          /\ stats.some => stats.value = counter)
    /\ [][iter' # iter => counter' = EmptyCounter]_vars

\* an iteration failed midway after it had counted a deletion, and the sweep
\* of the next iteration logged no deletion
C15_Witness ==
    /\ iter = 2
    /\ prevStats = None
    /\ Len(prevHandled) = 2
    /\ prevHandled[1].decision = "Expired"
    /\ prevHandled[2].decision = "Raised"
    /\ stats.some
    /\ Len(handled) >= 1
    /\ stats.value["trainingportal-deleted"] = 0

----
(* C16 *)

\* C16: every iteration builds its own client before it sweeps, so a sweep
\* only ever uses the client of its own iteration; when the build fails the
\* exception is caught like one of the sweep and no sweep runs.
C16_FreshClient ==
    /\ [](pc \in {"sweep", "handle"} => client = iter)
    /\ [](stats.some => client = iter)
    /\ [][iter' # iter =>
             \/ client' = iter' /\ pc' = "sweep"
             \/ client' = client /\ pc' = "check" /\ runFailed']_vars

\* the sweep after a failed iteration runs with the client of its own iteration
C16_Witness ==
    /\ failedRuns = 1
    /\ iter = 2
    /\ pc = "handle"
    /\ ~runFailed
    /\ client = 2

----
(* C17 *)

\* C17: when listing fails the exception reaches main: the iteration is
\* logged as failed, no resource is handled, nothing is deleted and no counts
\* are logged; a run that logged its counts listed the whole cluster.
C17_ListingFailurePropagates ==
    /\ [][(pc = "sweep" /\ pc' = "check") =>
             /\ runFailed'
             /\ handled' = <<>>
             /\ stats' = None
             /\ UNCHANGED <<cluster, requests, counter>>]_vars
    /\ [](runFailed => stats = None /\ handled = <<>> /\ pc # "handle")
    /\ [](stats.some =>
             \A n \in NameSet :
                InCluster(n) => \E j \in 1..Len(items) : items[j].name = n)

\* the client was built, listing failed, and an expired resource is still
\* in the cluster
C17_Witness ==
    /\ runFailed
    /\ client = iter
    /\ pc = "check"
    /\ \E n \in NameSet : InCluster(n) /\ Parses(n) /\ Timestamp(n) < clock

----
(* C18 *)

\* C18 as stated: two resources of one listing with the same expiry
\* timestamp always receive the same decision.
C18_Original ==
    \A h \in Handled, g \in Handled :
       (Parses(h.name) /\ Parses(g.name) /\ Timestamp(h.name) = Timestamp(g.name))
          => h.decision = g.decision

\* C18 (amended): every resource is evaluated against the instant the clock
\* shows when it is handled; two resources of one listing with the same
\* expiry timestamp receive the same decision when they are evaluated at the
\* same instant, and otherwise the one handled later may be Expired while
\* the earlier one is Pending, never the reverse.
C18_DecisionPerEvaluationInstant ==
    \A i \in 1..Len(handled), j \in 1..Len(handled) :
       (/\ i < j
        /\ Parses(handled[i].name) /\ Parses(handled[j].name)
        /\ Timestamp(handled[i].name) = Timestamp(handled[j].name))
       => /\ handled[i].now <= handled[j].now
          /\ handled[i].now = handled[j].now
                => handled[i].decision = handled[j].decision
          /\ handled[i].decision = "Expired" => handled[j].decision = "Expired"

\* time advanced inside the sweep: same expiry, the first Pending, the
\* second Expired
C18_Witness ==
    /\ Len(handled) = 2
    /\ Parses(handled[1].name) /\ Parses(handled[2].name)
    /\ Timestamp(handled[1].name) = Timestamp(handled[2].name)
    /\ handled[1].decision = "Pending"
    /\ handled[2].decision = "Expired"

====
